---- MODULE Spec2Model ----
(***************************************************************************)
(* Model of the question-answering core: the intent and entity classifier *)
(* (src/intent.py), the query spec builder (src/cypher_builder.py) and    *)
(* the ranking engine (src/ranker.py).                                     *)
(*                                                                         *)
(* A Python str is the sequence of the code points of its characters, so   *)
(* that substring search, case folding, whitespace normalisation and       *)
(* tokenisation are computed character by character; a literal is followed *)
(* by the text it spells.  A Python float score is an IEEE 754             *)
(* binary64 value, kept as a record [m, e] of significand and exponent and *)
(* computed with round-to-nearest arithmetic.  The lexical score is kept   *)
(* as the quotient [num, den] of the two ints the code divides and the     *)
(* entity boost as a number of tenths; FloatOf gives the floats they stand *)
(* for.  A dict with optional keys is a record whose fields are <<>> (key  *)
(* absent) or <<v>> (key present with value v).                            *)
(***************************************************************************)
EXTENDS Integers, Sequences, FiniteSets, TLC

VARIABLES
    pc,         \* position of the caller: which call has returned
    question,   \* the question string
    intent,     \* intent label (classifier output, builder input)
    entities,   \* entity dict: key -> list of strings
    specs,      \* list returned by build_queries
    text,       \* candidate text of a direct call to a scoring helper
    lex,        \* value returned by lexical_overlap_score, as a quotient
    boost,      \* value returned by entity_match_boost, in tenths
    tag,        \* tag argument of score_items
    heap,       \* row objects: object id -> row dict
    rows,       \* the caller's row list (object ids)
    rows0,      \* the caller's rows as they were before any call (contents)
    scored,     \* list returned by score_items (object ids)
    scored2,    \* list returned by a second score_items call on the same inputs
    n,          \* n argument of select_top_n
    top         \* list returned by select_top_n

vars == <<pc, question, intent, entities, specs, text, lex, boost, tag,
          heap, rows, rows0, scored, scored2, n, top>>

-----------------------------------------------------------------------------
(* Bounds of the model *)

MaxParts == 3       \* fragments per classifier question
MaxRows == 3        \* rows per score_items call
MaxItems == 3       \* items per select_top_n call
MaxN == 4           \* magnitude of the n argument of select_top_n
MaxLexParts == 2    \* fragments per string of a lexical_overlap_score call
MaxEntries == 3     \* entries per entity list of an entity_match_boost call
MaxEntityParts == 3  \* fragments per question of the entity extraction
MaxTableTokens == 5  \* question tokens up to which final scores are tabulated

-----------------------------------------------------------------------------
(* Strings *)

\* the characters str.strip() removes and the regex class \s matches:
\* TAB, LF, VT, FF, CR, the separators U+001C to U+001F, the space, NEL
\* (U+0085), the no-break space (U+00A0), the Ogham space mark (U+1680),
\* U+2000 to U+200A, the line and paragraph separators (U+2028, U+2029),
\* U+202F, U+205F and the ideographic space (U+3000)
Whitespace ==
    (9..13) \cup (28..32) \cup {133, 160, 5760} \cup (8192..8202)
    \cup {8232, 8233, 8239, 8287, 12288}

\* the space that replaces a whitespace run
Space == 32

\* the regex class [a-zA-Z]
Letters == (65..90) \cup (97..122)

IsLetter(c) == c \in Letters

\* The code points str.lower() changes into one other code point: a run
\* <<first, last, step, d>> sends each of first, first + step, ..., last to
\* itself plus d (Unicode 14.0, the character database of the interpreter).
LowerRuns == <<
    <<65,90,1,32>>,<<192,214,1,32>>,<<216,222,1,32>>,<<256,302,2,1>>,
    <<306,310,2,1>>,<<313,327,2,1>>,<<330,374,2,1>>,<<376,376,1,-121>>,
    <<377,381,2,1>>,<<385,385,1,210>>,<<386,388,2,1>>,<<390,390,1,206>>,
    <<391,391,1,1>>,<<393,394,1,205>>,<<395,395,1,1>>,<<398,398,1,79>>,
    <<399,399,1,202>>,<<400,400,1,203>>,<<401,401,1,1>>,
    <<403,403,1,205>>,<<404,404,1,207>>,<<406,406,1,211>>,
    <<407,407,1,209>>,<<408,408,1,1>>,<<412,412,1,211>>,
    <<413,413,1,213>>,<<415,415,1,214>>,<<416,420,2,1>>,
    <<422,422,1,218>>,<<423,423,1,1>>,<<425,425,1,218>>,<<428,428,1,1>>,
    <<430,430,1,218>>,<<431,431,1,1>>,<<433,434,1,217>>,<<435,437,2,1>>,
    <<439,439,1,219>>,<<440,440,1,1>>,<<444,444,1,1>>,<<452,452,1,2>>,
    <<453,453,1,1>>,<<455,455,1,2>>,<<456,456,1,1>>,<<458,458,1,2>>,
    <<459,475,2,1>>,<<478,494,2,1>>,<<497,497,1,2>>,<<498,500,2,1>>,
    <<502,502,1,-97>>,<<503,503,1,-56>>,<<504,542,2,1>>,
    <<544,544,1,-130>>,<<546,562,2,1>>,<<570,570,1,10795>>,
    <<571,571,1,1>>,<<573,573,1,-163>>,<<574,574,1,10792>>,
    <<577,577,1,1>>,<<579,579,1,-195>>,<<580,580,1,69>>,<<581,581,1,71>>,
    <<582,590,2,1>>,<<880,882,2,1>>,<<886,886,1,1>>,<<895,895,1,116>>,
    <<902,902,1,38>>,<<904,906,1,37>>,<<908,908,1,64>>,<<910,911,1,63>>,
    <<913,929,1,32>>,<<931,939,1,32>>,<<975,975,1,8>>,<<984,1006,2,1>>,
    <<1012,1012,1,-60>>,<<1015,1015,1,1>>,<<1017,1017,1,-7>>,
    <<1018,1018,1,1>>,<<1021,1023,1,-130>>,<<1024,1039,1,80>>,
    <<1040,1071,1,32>>,<<1120,1152,2,1>>,<<1162,1214,2,1>>,
    <<1216,1216,1,15>>,<<1217,1229,2,1>>,<<1232,1326,2,1>>,
    <<1329,1366,1,48>>,<<4256,4293,1,7264>>,<<4295,4295,1,7264>>,
    <<4301,4301,1,7264>>,<<5024,5103,1,38864>>,<<5104,5109,1,8>>,
    <<7312,7354,1,-3008>>,<<7357,7359,1,-3008>>,<<7680,7828,2,1>>,
    <<7838,7838,1,-7615>>,<<7840,7934,2,1>>,<<7944,7951,1,-8>>,
    <<7960,7965,1,-8>>,<<7976,7983,1,-8>>,<<7992,7999,1,-8>>,
    <<8008,8013,1,-8>>,<<8025,8031,2,-8>>,<<8040,8047,1,-8>>,
    <<8072,8079,1,-8>>,<<8088,8095,1,-8>>,<<8104,8111,1,-8>>,
    <<8120,8121,1,-8>>,<<8122,8123,1,-74>>,<<8124,8124,1,-9>>,
    <<8136,8139,1,-86>>,<<8140,8140,1,-9>>,<<8152,8153,1,-8>>,
    <<8154,8155,1,-100>>,<<8168,8169,1,-8>>,<<8170,8171,1,-112>>,
    <<8172,8172,1,-7>>,<<8184,8185,1,-128>>,<<8186,8187,1,-126>>,
    <<8188,8188,1,-9>>,<<8486,8486,1,-7517>>,<<8490,8490,1,-8383>>,
    <<8491,8491,1,-8262>>,<<8498,8498,1,28>>,<<8544,8559,1,16>>,
    <<8579,8579,1,1>>,<<9398,9423,1,26>>,<<11264,11311,1,48>>,
    <<11360,11360,1,1>>,<<11362,11362,1,-10743>>,<<11363,11363,1,-3814>>,
    <<11364,11364,1,-10727>>,<<11367,11371,2,1>>,<<11373,11373,1,-10780>>,
    <<11374,11374,1,-10749>>,<<11375,11375,1,-10783>>,
    <<11376,11376,1,-10782>>,<<11378,11378,1,1>>,<<11381,11381,1,1>>,
    <<11390,11391,1,-10815>>,<<11392,11490,2,1>>,<<11499,11501,2,1>>,
    <<11506,11506,1,1>>,<<42560,42604,2,1>>,<<42624,42650,2,1>>,
    <<42786,42798,2,1>>,<<42802,42862,2,1>>,<<42873,42875,2,1>>,
    <<42877,42877,1,-35332>>,<<42878,42886,2,1>>,<<42891,42891,1,1>>,
    <<42893,42893,1,-42280>>,<<42896,42898,2,1>>,<<42902,42920,2,1>>,
    <<42922,42922,1,-42308>>,<<42923,42923,1,-42319>>,
    <<42924,42924,1,-42315>>,<<42925,42925,1,-42305>>,
    <<42926,42926,1,-42308>>,<<42928,42928,1,-42258>>,
    <<42929,42929,1,-42282>>,<<42930,42930,1,-42261>>,
    <<42931,42931,1,928>>,<<42932,42946,2,1>>,<<42948,42948,1,-48>>,
    <<42949,42949,1,-42307>>,<<42950,42950,1,-35384>>,<<42951,42953,2,1>>,
    <<42960,42960,1,1>>,<<42966,42968,2,1>>,<<42997,42997,1,1>>,
    <<65313,65338,1,32>>,<<66560,66599,1,40>>,<<66736,66771,1,40>>,
    <<66928,66938,1,39>>,<<66940,66954,1,39>>,<<66956,66962,1,39>>,
    <<66964,66965,1,39>>,<<68736,68786,1,64>>,<<71840,71871,1,32>>,
    <<93760,93791,1,32>>,<<125184,125217,1,34>> >>

\* the code point str.lower() changes into two: the dotted capital I becomes
\* i followed by the combining dot above
LowerSpecial == (304 :> <<105,775>>)

InRun(c, r) == r[1] <= c /\ c <= r[2] /\ (c - r[1]) % r[3] = 0

RunPoints(r) == {r[1] + k * r[3] : k \in 0..((r[2] - r[1]) \div r[3])}

LowerPoints == UNION {RunPoints(LowerRuns[k]) : k \in DOMAIN LowerRuns}

RunOf(c) == LowerRuns[CHOOSE k \in DOMAIN LowerRuns : InRun(c, LowerRuns[k])]

\* str.lower() on the characters it changes, as a table computed once
LowerOf == [c \in LowerPoints |-> <<c + RunOf(c)[4]>>] @@ LowerSpecial

\* the characters str.lower() changes
Changed == DOMAIN LowerOf

\* str.lower() on a string of one character
LowerChar(c) == IF c \in Changed THEN LowerOf[c] ELSE <<c>>

\* The capital sigma lowers to the final sigma at the end of a word and to
\* the small sigma elsewhere.
CapitalSigma == 931
FinalSigma == 962
SmallSigma == 963

InRanges(c, rs) == \E k \in DOMAIN rs : rs[k][1] <= c /\ c <= rs[k][2]

\* the case-ignorable characters, as ranges <<first, last>>
CaseIgnorableRanges == <<
    <<39,39>>, <<46,46>>, <<58,58>>, <<94,94>>, <<96,96>>, <<168,168>>,
    <<173,173>>, <<175,175>>, <<180,180>>, <<183,184>>, <<688,879>>,
    <<884,885>>, <<890,890>>, <<900,901>>, <<903,903>>, <<1155,1161>>,
    <<1369,1369>>, <<1375,1375>>, <<1425,1469>>, <<1471,1471>>,
    <<1473,1474>>, <<1476,1477>>, <<1479,1479>>, <<1524,1524>>,
    <<1536,1541>>, <<1552,1562>>, <<1564,1564>>, <<1600,1600>>,
    <<1611,1631>>, <<1648,1648>>, <<1750,1757>>, <<1759,1768>>,
    <<1770,1773>>, <<1807,1807>>, <<1809,1809>>, <<1840,1866>>,
    <<1958,1968>>, <<2027,2037>>, <<2042,2042>>, <<2045,2045>>,
    <<2070,2093>>, <<2137,2139>>, <<2184,2184>>, <<2192,2193>>,
    <<2200,2207>>, <<2249,2306>>, <<2362,2362>>, <<2364,2364>>,
    <<2369,2376>>, <<2381,2381>>, <<2385,2391>>, <<2402,2403>>,
    <<2417,2417>>, <<2433,2433>>, <<2492,2492>>, <<2497,2500>>,
    <<2509,2509>>, <<2530,2531>>, <<2558,2558>>, <<2561,2562>>,
    <<2620,2620>>, <<2625,2626>>, <<2631,2632>>, <<2635,2637>>,
    <<2641,2641>>, <<2672,2673>>, <<2677,2677>>, <<2689,2690>>,
    <<2748,2748>>, <<2753,2757>>, <<2759,2760>>, <<2765,2765>>,
    <<2786,2787>>, <<2810,2815>>, <<2817,2817>>, <<2876,2876>>,
    <<2879,2879>>, <<2881,2884>>, <<2893,2893>>, <<2901,2902>>,
    <<2914,2915>>, <<2946,2946>>, <<3008,3008>>, <<3021,3021>>,
    <<3072,3072>>, <<3076,3076>>, <<3132,3132>>, <<3134,3136>>,
    <<3142,3144>>, <<3146,3149>>, <<3157,3158>>, <<3170,3171>>,
    <<3201,3201>>, <<3260,3260>>, <<3263,3263>>, <<3270,3270>>,
    <<3276,3277>>, <<3298,3299>>, <<3328,3329>>, <<3387,3388>>,
    <<3393,3396>>, <<3405,3405>>, <<3426,3427>>, <<3457,3457>>,
    <<3530,3530>>, <<3538,3540>>, <<3542,3542>>, <<3633,3633>>,
    <<3636,3642>>, <<3654,3662>>, <<3761,3761>>, <<3764,3772>>,
    <<3782,3782>>, <<3784,3789>>, <<3864,3865>>, <<3893,3893>>,
    <<3895,3895>>, <<3897,3897>>, <<3953,3966>>, <<3968,3972>>,
    <<3974,3975>>, <<3981,3991>>, <<3993,4028>>, <<4038,4038>>,
    <<4141,4144>>, <<4146,4151>>, <<4153,4154>>, <<4157,4158>>,
    <<4184,4185>>, <<4190,4192>>, <<4209,4212>>, <<4226,4226>>,
    <<4229,4230>>, <<4237,4237>>, <<4253,4253>>, <<4348,4348>>,
    <<4957,4959>>, <<5906,5908>>, <<5938,5939>>, <<5970,5971>>,
    <<6002,6003>>, <<6068,6069>>, <<6071,6077>>, <<6086,6086>>,
    <<6089,6099>>, <<6103,6103>>, <<6109,6109>>, <<6155,6159>>,
    <<6211,6211>>, <<6277,6278>>, <<6313,6313>>, <<6432,6434>>,
    <<6439,6440>>, <<6450,6450>>, <<6457,6459>>, <<6679,6680>>,
    <<6683,6683>>, <<6742,6742>>, <<6744,6750>>, <<6752,6752>>,
    <<6754,6754>>, <<6757,6764>>, <<6771,6780>>, <<6783,6783>>,
    <<6823,6823>>, <<6832,6862>>, <<6912,6915>>, <<6964,6964>>,
    <<6966,6970>>, <<6972,6972>>, <<6978,6978>>, <<7019,7027>>,
    <<7040,7041>>, <<7074,7077>>, <<7080,7081>>, <<7083,7085>>,
    <<7142,7142>>, <<7144,7145>>, <<7149,7149>>, <<7151,7153>>,
    <<7212,7219>>, <<7222,7223>>, <<7288,7293>>, <<7376,7378>>,
    <<7380,7392>>, <<7394,7400>>, <<7405,7405>>, <<7412,7412>>,
    <<7416,7417>>, <<7468,7530>>, <<7544,7544>>, <<7579,7679>>,
    <<8125,8125>>, <<8127,8129>>, <<8141,8143>>, <<8157,8159>>,
    <<8173,8175>>, <<8189,8190>>, <<8203,8207>>, <<8216,8217>>,
    <<8228,8228>>, <<8231,8231>>, <<8234,8238>>, <<8288,8292>>,
    <<8294,8303>>, <<8305,8305>>, <<8319,8319>>, <<8336,8348>>,
    <<8400,8432>>, <<11388,11389>>, <<11503,11505>>, <<11631,11631>>,
    <<11647,11647>>, <<11744,11775>>, <<11823,11823>>, <<12293,12293>>,
    <<12330,12333>>, <<12337,12341>>, <<12347,12347>>, <<12441,12446>>,
    <<12540,12542>>, <<40981,40981>>, <<42232,42237>>, <<42508,42508>>,
    <<42607,42610>>, <<42612,42621>>, <<42623,42623>>, <<42652,42655>>,
    <<42736,42737>>, <<42752,42785>>, <<42864,42864>>, <<42888,42890>>,
    <<42994,42996>>, <<43000,43001>>, <<43010,43010>>, <<43014,43014>>,
    <<43019,43019>>, <<43045,43046>>, <<43052,43052>>, <<43204,43205>>,
    <<43232,43249>>, <<43263,43263>>, <<43302,43309>>, <<43335,43345>>,
    <<43392,43394>>, <<43443,43443>>, <<43446,43449>>, <<43452,43453>>,
    <<43471,43471>>, <<43493,43494>>, <<43561,43566>>, <<43569,43570>>,
    <<43573,43574>>, <<43587,43587>>, <<43596,43596>>, <<43632,43632>>,
    <<43644,43644>>, <<43696,43696>>, <<43698,43700>>, <<43703,43704>>,
    <<43710,43711>>, <<43713,43713>>, <<43741,43741>>, <<43756,43757>>,
    <<43763,43764>>, <<43766,43766>>, <<43867,43871>>, <<43881,43883>>,
    <<44005,44005>>, <<44008,44008>>, <<44013,44013>>, <<64286,64286>>,
    <<64434,64450>>, <<65024,65039>>, <<65043,65043>>, <<65056,65071>>,
    <<65106,65106>>, <<65109,65109>>, <<65279,65279>>, <<65287,65287>>,
    <<65294,65294>>, <<65306,65306>>, <<65342,65342>>, <<65344,65344>>,
    <<65392,65392>>, <<65438,65439>>, <<65507,65507>>, <<65529,65531>>,
    <<66045,66045>>, <<66272,66272>>, <<66422,66426>>, <<67456,67461>>,
    <<67463,67504>>, <<67506,67514>>, <<68097,68099>>, <<68101,68102>>,
    <<68108,68111>>, <<68152,68154>>, <<68159,68159>>, <<68325,68326>>,
    <<68900,68903>>, <<69291,69292>>, <<69446,69456>>, <<69506,69509>>,
    <<69633,69633>>, <<69688,69702>>, <<69744,69744>>, <<69747,69748>>,
    <<69759,69761>>, <<69811,69814>>, <<69817,69818>>, <<69821,69821>>,
    <<69826,69826>>, <<69837,69837>>, <<69888,69890>>, <<69927,69931>>,
    <<69933,69940>>, <<70003,70003>>, <<70016,70017>>, <<70070,70078>>,
    <<70089,70092>>, <<70095,70095>>, <<70191,70193>>, <<70196,70196>>,
    <<70198,70199>>, <<70206,70206>>, <<70367,70367>>, <<70371,70378>>,
    <<70400,70401>>, <<70459,70460>>, <<70464,70464>>, <<70502,70508>>,
    <<70512,70516>>, <<70712,70719>>, <<70722,70724>>, <<70726,70726>>,
    <<70750,70750>>, <<70835,70840>>, <<70842,70842>>, <<70847,70848>>,
    <<70850,70851>>, <<71090,71093>>, <<71100,71101>>, <<71103,71104>>,
    <<71132,71133>>, <<71219,71226>>, <<71229,71229>>, <<71231,71232>>,
    <<71339,71339>>, <<71341,71341>>, <<71344,71349>>, <<71351,71351>>,
    <<71453,71455>>, <<71458,71461>>, <<71463,71467>>, <<71727,71735>>,
    <<71737,71738>>, <<71995,71996>>, <<71998,71998>>, <<72003,72003>>,
    <<72148,72151>>, <<72154,72155>>, <<72160,72160>>, <<72193,72202>>,
    <<72243,72248>>, <<72251,72254>>, <<72263,72263>>, <<72273,72278>>,
    <<72281,72283>>, <<72330,72342>>, <<72344,72345>>, <<72752,72758>>,
    <<72760,72765>>, <<72767,72767>>, <<72850,72871>>, <<72874,72880>>,
    <<72882,72883>>, <<72885,72886>>, <<73009,73014>>, <<73018,73018>>,
    <<73020,73021>>, <<73023,73029>>, <<73031,73031>>, <<73104,73105>>,
    <<73109,73109>>, <<73111,73111>>, <<73459,73460>>, <<78896,78904>>,
    <<92912,92916>>, <<92976,92982>>, <<92992,92995>>, <<94031,94031>>,
    <<94095,94111>>, <<94176,94177>>, <<94179,94180>>, <<110576,110579>>,
    <<110581,110587>>, <<110589,110590>>, <<113821,113822>>,
    <<113824,113827>>, <<118528,118573>>, <<118576,118598>>,
    <<119143,119145>>, <<119155,119170>>, <<119173,119179>>,
    <<119210,119213>>, <<119362,119364>>, <<121344,121398>>,
    <<121403,121452>>, <<121461,121461>>, <<121476,121476>>,
    <<121499,121503>>, <<121505,121519>>, <<122880,122886>>,
    <<122888,122904>>, <<122907,122913>>, <<122915,122916>>,
    <<122918,122922>>, <<123184,123197>>, <<123566,123566>>,
    <<123628,123631>>, <<125136,125142>>, <<125252,125259>>,
    <<127995,127999>>, <<917505,917505>>, <<917536,917631>>,
    <<917760,917999>> >>

\* the cased characters, as ranges <<first, last>>
CasedRanges == <<
    <<65,90>>, <<97,122>>, <<170,170>>, <<181,181>>, <<186,186>>,
    <<192,214>>, <<216,246>>, <<248,442>>, <<444,447>>, <<452,659>>,
    <<661,696>>, <<704,705>>, <<736,740>>, <<837,837>>, <<880,883>>,
    <<886,887>>, <<890,893>>, <<895,895>>, <<902,902>>, <<904,906>>,
    <<908,908>>, <<910,929>>, <<931,1013>>, <<1015,1153>>, <<1162,1327>>,
    <<1329,1366>>, <<1376,1416>>, <<4256,4293>>, <<4295,4295>>,
    <<4301,4301>>, <<4304,4346>>, <<4349,4351>>, <<5024,5109>>,
    <<5112,5117>>, <<7296,7304>>, <<7312,7354>>, <<7357,7359>>,
    <<7424,7615>>, <<7680,7957>>, <<7960,7965>>, <<7968,8005>>,
    <<8008,8013>>, <<8016,8023>>, <<8025,8025>>, <<8027,8027>>,
    <<8029,8029>>, <<8031,8061>>, <<8064,8116>>, <<8118,8124>>,
    <<8126,8126>>, <<8130,8132>>, <<8134,8140>>, <<8144,8147>>,
    <<8150,8155>>, <<8160,8172>>, <<8178,8180>>, <<8182,8188>>,
    <<8305,8305>>, <<8319,8319>>, <<8336,8348>>, <<8450,8450>>,
    <<8455,8455>>, <<8458,8467>>, <<8469,8469>>, <<8473,8477>>,
    <<8484,8484>>, <<8486,8486>>, <<8488,8488>>, <<8490,8493>>,
    <<8495,8500>>, <<8505,8505>>, <<8508,8511>>, <<8517,8521>>,
    <<8526,8526>>, <<8544,8575>>, <<8579,8580>>, <<9398,9449>>,
    <<11264,11492>>, <<11499,11502>>, <<11506,11507>>, <<11520,11557>>,
    <<11559,11559>>, <<11565,11565>>, <<42560,42605>>, <<42624,42653>>,
    <<42786,42887>>, <<42891,42894>>, <<42896,42954>>, <<42960,42961>>,
    <<42963,42963>>, <<42965,42969>>, <<42997,42998>>, <<43000,43002>>,
    <<43824,43866>>, <<43868,43880>>, <<43888,43967>>, <<64256,64262>>,
    <<64275,64279>>, <<65313,65338>>, <<65345,65370>>, <<66560,66639>>,
    <<66736,66771>>, <<66776,66811>>, <<66928,66938>>, <<66940,66954>>,
    <<66956,66962>>, <<66964,66965>>, <<66967,66977>>, <<66979,66993>>,
    <<66995,67001>>, <<67003,67004>>, <<67456,67456>>, <<67459,67461>>,
    <<67463,67504>>, <<67506,67514>>, <<68736,68786>>, <<68800,68850>>,
    <<71840,71903>>, <<93760,93823>>, <<119808,119892>>, <<119894,119964>>,
    <<119966,119967>>, <<119970,119970>>, <<119973,119974>>,
    <<119977,119980>>, <<119982,119993>>, <<119995,119995>>,
    <<119997,120003>>, <<120005,120069>>, <<120071,120074>>,
    <<120077,120084>>, <<120086,120092>>, <<120094,120121>>,
    <<120123,120126>>, <<120128,120132>>, <<120134,120134>>,
    <<120138,120144>>, <<120146,120485>>, <<120488,120512>>,
    <<120514,120538>>, <<120540,120570>>, <<120572,120596>>,
    <<120598,120628>>, <<120630,120654>>, <<120656,120686>>,
    <<120688,120712>>, <<120714,120744>>, <<120746,120770>>,
    <<120772,120779>>, <<122624,122633>>, <<122635,122654>>,
    <<125184,125251>>, <<127280,127305>>, <<127312,127337>>,
    <<127344,127369>> >>

CaseIgnorable(c) == InRanges(c, CaseIgnorableRanges)

Cased(c) == InRanges(c, CasedRanges)

\* the nearest position at or before j whose character is not
\* case-ignorable, 0 if there is none
RECURSIVE SkipBack(_, _)
SkipBack(s, j) ==
    IF j >= 1 /\ CaseIgnorable(s[j]) THEN SkipBack(s, j - 1) ELSE j

\* the nearest position at or after j whose character is not
\* case-ignorable, Len(s) + 1 if there is none
RECURSIVE SkipForward(_, _)
SkipForward(s, j) ==
    IF j <= Len(s) /\ CaseIgnorable(s[j]) THEN SkipForward(s, j + 1) ELSE j

\* the capital sigma at position i of s ends a word: a cased character
\* precedes it and none follows it, case-ignorable characters skipped
IsFinalSigma(s, i) ==
    LET b == SkipBack(s, i - 1)
        f == SkipForward(s, i + 1)
    IN  /\ b >= 1 /\ Cased(s[b])
        /\ ~(f <= Len(s) /\ Cased(s[f]))

\* the lower case of the character at position i of s
LowerAt(s, i) ==
    IF s[i] = CapitalSigma
    THEN <<IF IsFinalSigma(s, i) THEN FinalSigma ELSE SmallSigma>>
    ELSE LowerChar(s[i])

RECURSIVE LowerFrom(_, _)
LowerFrom(s, i) ==
    IF i > Len(s) THEN <<>> ELSE LowerAt(s, i) \o LowerFrom(s, i + 1)

\* str.lower()
Lower(s) == LowerFrom(s, 1)

\* the Python test `sub in s`
Contains(sub, s) ==
    \E i \in 0..(Len(s) - Len(sub)) : SubSeq(s, i + 1, i + Len(sub)) = sub

RECURSIVE LStrip(_)
LStrip(s) ==
    IF s # <<>> /\ Head(s) \in Whitespace THEN LStrip(Tail(s)) ELSE s

RECURSIVE RStrip(_)
RStrip(s) ==
    IF s # <<>> /\ s[Len(s)] \in Whitespace
    THEN RStrip(SubSeq(s, 1, Len(s) - 1))
    ELSE s

\* str.strip()
Strip(s) == RStrip(LStrip(s))

\* re.sub(r"\s+", " ", s): every maximal whitespace run becomes one space
RECURSIVE CollapseWs(_)
CollapseWs(s) ==
    IF s = <<>> THEN <<>>
    ELSE IF Head(s) \in Whitespace
         THEN <<Space>> \o CollapseWs(LStrip(s))
         ELSE <<Head(s)>> \o CollapseWs(Tail(s))

\* s1 + s2 + ... for a list of strings
RECURSIVE Concat(_)
Concat(ss) == IF ss = <<>> THEN <<>> ELSE Head(ss) \o Concat(Tail(ss))

-----------------------------------------------------------------------------
(* src/intent.py *)

INTENTS == <<
    [intent |-> "symptoms",
     keywords |-> << <<115, 121, 109, 112, 116, 111, 109>> (* "symptom" *),
                     <<115, 121, 109, 112, 116, 111, 109, 115>> (* "symptoms" *) >>],
    [intent |-> "risk_factors",
     keywords |-> << <<114, 105, 115, 107>> (* "risk" *),
                     <<114, 105, 115, 107, 32, 102, 97, 99, 116, 111, 114>> (* "risk factor" *),
                     <<114, 105, 115, 107, 32, 102, 97, 99, 116, 111, 114, 115>> (* "risk factors" *),
                     <<105, 110, 99, 114, 101, 97, 115, 101, 32, 116, 104, 101, 32, 114, 105, 115, 107>> (* "increase the risk" *) >>],
    [intent |-> "diagnostic_techniques",
     keywords |-> << <<100, 105, 97, 103, 110, 111, 115, 116, 105, 99>> (* "diagnostic" *),
                     <<100, 105, 97, 103, 110, 111, 115, 105, 115>> (* "diagnosis" *),
                     <<116, 101, 99, 104, 110, 105, 113, 117, 101>> (* "technique" *),
                     <<116, 101, 99, 104, 110, 105, 113, 117, 101, 115>> (* "techniques" *) >>],
    [intent |-> "dataset",
     keywords |-> << <<100, 97, 116, 97, 115, 101, 116>> (* "dataset" *),
                     <<100, 97, 116, 97, 32, 115, 101, 116>> (* "data set" *),
                     <<105, 110, 115, 116, 97, 110, 99, 101, 115>> (* "instances" *),
                     <<102, 101, 97, 116, 117, 114, 101, 115>> (* "features" *),
                     <<115, 111, 117, 114, 99, 101>> (* "source" *) >>],
    [intent |-> "cancer_types",
     keywords |-> << <<116, 121, 112, 101, 32, 111, 102, 32, 99, 97, 110, 99, 101, 114>> (* "type of cancer" *),
                     <<116, 121, 112, 101, 115, 32, 111, 102, 32, 99, 97, 110, 99, 101, 114>> (* "types of cancer" *),
                     <<99, 97, 110, 99, 101, 114, 32, 116, 121, 112, 101, 115>> (* "cancer types" *),
                     <<115, 116, 97, 103, 101>> (* "stage" *),
                     <<115, 116, 97, 103, 101, 115>> (* "stages" *) >>],
    [intent |-> "results",
     keywords |-> << <<97, 99, 99, 117, 114, 97, 99, 121>> (* "accuracy" *),
                     <<114, 101, 115, 117, 108, 116>> (* "result" *),
                     <<114, 101, 115, 117, 108, 116, 115>> (* "results" *),
                     <<98, 101, 110, 99, 104, 109, 97, 114, 107>> (* "benchmark" *),
                     <<112, 101, 114, 102, 111, 114, 109, 97, 110, 99, 101>> (* "performance" *),
                     <<98, 101, 115, 116, 32, 109, 111, 100, 101, 108>> (* "best model" *) >>],
    [intent |-> "conclusion",
     keywords |-> << <<99, 111, 110, 99, 108, 117, 115, 105, 111, 110>> (* "conclusion" *),
                     <<115, 117, 109, 109, 97, 114, 121>> (* "summary" *) >>] >>

ALGORITHM_ALIASES == <<
    [short |-> <<115, 118, 109>> (* "svm" *), kws |-> <<
               <<115, 118, 109>> (* "svm" *),
               <<115, 117, 112, 112, 111, 114, 116, 32, 118, 101, 99, 116, 111, 114>> (* "support vector" *) >>],
    [short |-> <<97, 110, 110>> (* "ann" *), kws |-> <<
               <<97, 110, 110>> (* "ann" *),
               <<97, 114, 116, 105, 102, 105, 99, 105, 97, 108, 32, 110, 101, 117, 114, 97, 108>> (* "artificial neural" *) >>],
    [short |-> <<114, 102>> (* "rf" *),  kws |-> <<
               <<114, 102>> (* "rf" *),
               <<114, 97, 110, 100, 111, 109, 32, 102, 111, 114, 101, 115, 116>> (* "random forest" *) >>],
    [short |-> <<109, 108, 114>> (* "mlr" *), kws |-> <<
               <<109, 108, 114>> (* "mlr" *),
               <<109, 117, 108, 116, 105, 112, 108, 101, 32, 108, 105, 110, 101, 97, 114, 32, 114, 101, 103, 114, 101, 115, 115, 105, 111, 110>> (* "multiple linear regression" *) >> ] >>

SECTION_NAMES == << <<97, 98, 115, 116, 114, 97, 99, 116>> (* "abstract" *),
                    <<105, 110, 116, 114, 111, 100, 117, 99, 116, 105, 111, 110>> (* "introduction" *),
                    <<109, 101, 116, 104, 111, 100, 111, 108, 111, 103, 121>> (* "methodology" *),
                    <<114, 101, 115, 117, 108, 116, 115>> (* "results" *),
                    <<99, 111, 110, 99, 108, 117, 115, 105, 111, 110>> (* "conclusion" *) >>

\* _normalize: lower-case, strip, then collapse whitespace runs
Normalize(s) == CollapseWs(Strip(Lower(s)))

\* any(kw in q for kw in kws)
AnyKeywordIn(kws, q) == \E k \in 1..Len(kws) : Contains(kws[k], q)

\* the loop of _detect_intent over INTENTS.items(), from entry i on
RECURSIVE DetectFrom(_, _)
DetectFrom(q, i) ==
    IF i > Len(INTENTS) THEN "generic"
    ELSE IF AnyKeywordIn(INTENTS[i].keywords, q) THEN INTENTS[i].intent
    ELSE DetectFrom(q, i + 1)

\* the same loop running from the last entry to the first
RECURSIVE DetectBackFrom(_, _)
DetectBackFrom(q, i) ==
    IF i < 1 THEN "generic"
    ELSE IF AnyKeywordIn(INTENTS[i].keywords, q) THEN INTENTS[i].intent
    ELSE DetectBackFrom(q, i - 1)

DetectIntentLastMatch(s) == DetectBackFrom(Normalize(s), Len(INTENTS))

DetectIntent(s) == DetectFrom(Normalize(s), 1)

\* the short code once per keyword of the group occurring in q
RECURSIVE ShortPerKeyword(_, _, _)
ShortPerKeyword(entry, q, k) ==
    IF k > Len(entry.kws) THEN <<>>
    ELSE (IF Contains(entry.kws[k], q) THEN <<entry.short>> ELSE <<>>)
         \o ShortPerKeyword(entry, q, k + 1)

\* the loop appending the short code for every keyword that occurs
RECURSIVE AlgorithmsPerKeywordFrom(_, _)
AlgorithmsPerKeywordFrom(q, i) ==
    IF i > Len(ALGORITHM_ALIASES) THEN <<>>
    ELSE ShortPerKeyword(ALGORITHM_ALIASES[i], q, 1)
         \o AlgorithmsPerKeywordFrom(q, i + 1)

\* the loop over ALGORITHM_ALIASES.items(), from entry i on
RECURSIVE AlgorithmsFrom(_, _)
AlgorithmsFrom(q, i) ==
    IF i > Len(ALGORITHM_ALIASES) THEN <<>>
    ELSE (IF AnyKeywordIn(ALGORITHM_ALIASES[i].kws, q)
          THEN <<ALGORITHM_ALIASES[i].short>> ELSE <<>>)
         \o AlgorithmsFrom(q, i + 1)

\* the loop over SECTION_NAMES, from entry i on
RECURSIVE SectionsFrom(_, _)
SectionsFrom(q, i) ==
    IF i > Len(SECTION_NAMES) THEN <<>>
    ELSE (IF Contains(SECTION_NAMES[i], q) THEN <<SECTION_NAMES[i]>> ELSE <<>>)
         \o SectionsFrom(q, i + 1)

ExtractEntities(s) ==
    LET q == Normalize(s) IN
    [diseases   |-> IF Contains(<<108, 117, 110, 103, 32, 99, 97, 110, 99, 101, 114>> (* "lung cancer" *), q)
                    THEN << <<108, 117, 110, 103, 32, 99, 97, 110, 99, 101, 114>> (* "lung cancer" *) >> ELSE <<>>,
     algorithms |-> AlgorithmsFrom(q, 1),
     sections   |-> SectionsFrom(q, 1)]

ClassifyIntentAndEntities(s) ==
    [intent |-> DetectIntent(s), entities |-> ExtractEntities(s)]

-----------------------------------------------------------------------------
(* src/cypher_builder.py *)

\* a spec dict; params is the set of its (name, value) pairs
QuerySpec(t, q, p) == [tag |-> t, query |-> q, params |-> p]

SymptomsSpec == QuerySpec("Symptoms",
    "MATCH (:Introduction)-[:MENTIONS_SYMPTOM]->(s:Symptom) RETURN s.name AS item", {})
RiskFactorsSpec == QuerySpec("RiskFactors",
    "MATCH (:Introduction)-[:IDENTIFIES_RISK_FACTOR]->(r:RiskFactor) RETURN r.name AS item", {})
DiagnosticTechniquesSpec == QuerySpec("DiagnosticTechniques",
    "MATCH (:Introduction)-[:USES_TECHNIQUE]->(t:Technique) RETURN t.name AS item", {})
DatasetSpec == QuerySpec("Dataset",
    "MATCH (:Methodology)-[:USES_DATASET]->(d:Dataset) RETURN d.name AS name, d.source AS source, d.instances AS instances, d.features AS features, d.format AS format", {})
CancerTypesSpec == QuerySpec("CancerTypes",
    "MATCH (:Introduction)-[:DISCUSSES_CANCER_TYPE]->(c:CancerType) RETURN c.name AS item", {})
ResultsSpec == QuerySpec("Results",
    "MATCH (m:Model)-[:HAS_RESULT]->(r:Result) RETURN coalesce(m.full_name,m.name) AS model, r.metric AS metric, r.accuracy AS accuracy", {})
BestModelSpec == QuerySpec("BestModel",
    "MATCH (:Paper)-[:BEST_MODEL]->(m:Model) RETURN coalesce(m.full_name,m.name) AS bestModel", {})
ConclusionSpec == QuerySpec("Conclusion",
    "MATCH (s:Section:Conclusion) RETURN s.name AS name, s.text AS text", {})
SectionsSpec(question_text) == QuerySpec("Sections",
    "MATCH (s:Section) WHERE toLower(s.text) CONTAINS toLower($q) RETURN s.name AS name, s.text AS text LIMIT 50",
    {<<"q", question_text>>})

\* the if/elif chain of build_queries
IntentSpecs(i) ==
    IF i = "symptoms" THEN <<SymptomsSpec>>
    ELSE IF i = "risk_factors" THEN <<RiskFactorsSpec>>
    ELSE IF i = "diagnostic_techniques" THEN <<DiagnosticTechniquesSpec>>
    ELSE IF i = "dataset" THEN <<DatasetSpec>>
    ELSE IF i = "cancer_types" THEN <<CancerTypesSpec>>
    ELSE IF i = "results" THEN <<ResultsSpec, BestModelSpec>>
    ELSE IF i = "conclusion" THEN <<ConclusionSpec>>
    ELSE <<>>

\* build_queries with the fallback appended whatever the branch produced
BuildQueriesAlwaysFallback(i, ents, question_text) ==
    IntentSpecs(i) \o <<SectionsSpec(question_text)>>

\* build_queries with the fallback bound to the normalized question
BuildQueriesNormalizedParam(i, ents, question_text) ==
    IF IntentSpecs(i) = <<>>
    THEN <<SectionsSpec(Normalize(question_text))>>
    ELSE IntentSpecs(i)

BuildQueries(i, ents, question_text) ==
    LET branch == IntentSpecs(i) IN
    IF branch = <<>> THEN <<SectionsSpec(question_text)>> ELSE branch

-----------------------------------------------------------------------------
(* src/ranker.py *)

\* The weights and boosts of the source are written in tenths: 0.5 is 5,
\* 0.3 is 3, 0.2 is 2, 0.6 is 6.
TokenTailMin == 2       \* the {2,} of the token regex
EntityStep == 2         \* score += 0.2
EntityCap == 6          \* min(score, 0.6)
ProximityBoost == 2     \* prox = 0.2
LexWeight == 5          \* 0.5 * lex
EntityWeight == 3       \* 0.3 * ent
ProximityWeight == 2    \* 0.2 * prox
DefaultTopN == 8        \* n: int = 8

\* The quotient a / b of two ints, before the division rounds it to a float
Rat(a, b) == [num |-> a, den |-> b]
RatEq(x, y) == x.num * y.den = y.num * x.den


\* Python float: IEEE 754 binary64, round to nearest, ties to even.
\* A float is [m, e] and stands for m * 2^e.  The significand m is a natural
\* number written in limbs of LimbBits bits, lowest limb first; a float that
\* is not zero has a significand of exactly SignificandBits bits, and zero
\* is [m |-> <<>>, e |-> 0].  Only finite floats that are zero or positive
\* and normal occur in src/ranker.py.
SignificandBits == 53
LimbBits == 15
LimbBase == 2 ^ LimbBits

Zeros(k) == [i \in 1..k |-> 0]

\* the limbs of a without its leading zero limbs
RECURSIVE BigTrim(_)
BigTrim(a) ==
    IF a # <<>> /\ a[Len(a)] = 0 THEN BigTrim(SubSeq(a, 1, Len(a) - 1))
    ELSE a

Limb(a, i) == IF i <= Len(a) THEN a[i] ELSE 0

\* a + b + c from limb i on, c the carry
RECURSIVE BigAddFrom(_, _, _, _)
BigAddFrom(a, b, i, c) ==
    IF i > Len(a) /\ i > Len(b) THEN (IF c = 0 THEN <<>> ELSE <<c>>)
    ELSE <<(Limb(a, i) + Limb(b, i) + c) % LimbBase>>
         \o BigAddFrom(a, b, i + 1, (Limb(a, i) + Limb(b, i) + c) \div LimbBase)

BigAdd(a, b) == BigAddFrom(a, b, 1, 0)

\* a * k + c from limb i on, for a limb k
RECURSIVE BigTimesFrom(_, _, _, _)
BigTimesFrom(a, k, i, c) ==
    IF i > Len(a) THEN (IF c = 0 THEN <<>> ELSE <<c>>)
    ELSE <<(a[i] * k + c) % LimbBase>>
         \o BigTimesFrom(a, k, i + 1, (a[i] * k + c) \div LimbBase)

BigTimes(a, k) == IF k = 0 THEN <<>> ELSE BigTimesFrom(a, k, 1, 0)

\* a * b, adding a * b[j] * LimbBase^(j-1) from limb j of b on
RECURSIVE BigMulFrom(_, _, _)
BigMulFrom(a, b, j) ==
    IF j > Len(b) THEN <<>>
    ELSE BigAdd(Zeros(j - 1) \o BigTimes(a, b[j]), BigMulFrom(a, b, j + 1))

BigMul(a, b) == BigMulFrom(a, b, 1)

\* long division of a by k, 0 < k <= LimbBase, from limb i down; r is the
\* remainder and q the quotient limbs so far
RECURSIVE BigDivFrom(_, _, _, _, _)
BigDivFrom(a, k, i, r, q) ==
    IF i = 0 THEN [q |-> BigTrim(q), r |-> r]
    ELSE BigDivFrom(a, k, i - 1, (r * LimbBase + a[i]) % k,
                    <<(r * LimbBase + a[i]) \div k>> \o q)

BigDiv(a, k) == BigDivFrom(a, k, Len(a), 0, <<>>)

\* the limbs of the natural number k
RECURSIVE BigOf(_)
BigOf(k) == IF k = 0 THEN <<>> ELSE <<k % LimbBase>> \o BigOf(k \div LimbBase)

RECURSIVE BitLength(_)
BitLength(k) == IF k = 0 THEN 0 ELSE 1 + BitLength(k \div 2)

\* the number of bits of a, a without leading zero limbs
BigBitLength(a) ==
    IF a = <<>> THEN 0 ELSE (Len(a) - 1) * LimbBits + BitLength(a[Len(a)])

\* a * 2^s
BigShiftLeft(a, s) ==
    IF a = <<>> THEN <<>>
    ELSE Zeros(s \div LimbBits) \o BigTimes(a, 2 ^ (s % LimbBits))

\* a \div 2^s in q, and in lost whether a bit that is 1 was shifted out
BigShiftRight(a, s) ==
    LET whole == s \div LimbBits
        d == BigDiv(SubSeq(a, whole + 1, Len(a)), 2 ^ (s % LimbBits))
    IN  [q |-> d.q,
         lost |-> d.r # 0 \/ \E i \in 1..whole : Limb(a, i) # 0]

BigOdd(a) == a # <<>> /\ a[1] % 2 = 1

\* a < b for a and b without leading zero limbs
BigLess(a, b) ==
    \/ Len(a) < Len(b)
    \/ /\ Len(a) = Len(b)
       /\ \E i \in 1..Len(a) :
             a[i] < b[i] /\ \A j \in (i + 1)..Len(a) : a[j] = b[j]

FloatZero == [m |-> <<>>, e |-> 0]

\* the float of significand m and exponent e, m of SignificandBits bits or
\* one more (after a carry out of the top bit, when m is a power of two)
Normal(m, e) ==
    IF BigBitLength(m) > SignificandBits THEN [m |-> BigDiv(m, 2).q, e |-> e + 1]
    ELSE [m |-> m, e |-> e]

\* t is the value cut to SignificandBits + 1 bits, the lowest being the
\* first bit cut off, and lost tells whether a later bit was 1: round half
\* to even
RoundHalfEven(t, lost, e) ==
    IF BigOdd(t) /\ (lost \/ BigOdd(BigDiv(t, 2).q))
    THEN Normal(BigAdd(BigDiv(t, 2).q, <<1>>), e)
    ELSE [m |-> BigDiv(t, 2).q, e |-> e]

RoundCut(cut, inexact, e) == RoundHalfEven(cut.q, cut.lost \/ inexact, e)

\* the float nearest to (a + f) * 2^e, for a natural number a > 0 without
\* leading zero limbs and a fraction 0 <= f < 1 with f > 0 iff inexact;
\* a has more than SignificandBits + 1 bits when inexact
RoundToFloat(a, e, inexact) ==
    IF BigBitLength(a) <= SignificandBits
    THEN [m |-> BigShiftLeft(a, SignificandBits - BigBitLength(a)),
          e |-> e - (SignificandBits - BigBitLength(a))]
    ELSE RoundCut(BigShiftRight(a, BigBitLength(a) - SignificandBits - 1),
                  inexact, e + BigBitLength(a) - SignificandBits)

\* x + y
FloatAdd(x, y) ==
    IF x.m = <<>> THEN y
    ELSE IF y.m = <<>> THEN x
    ELSE IF x.e <= y.e
         THEN RoundToFloat(BigAdd(x.m, BigShiftLeft(y.m, y.e - x.e)), x.e, FALSE)
         ELSE RoundToFloat(BigAdd(BigShiftLeft(x.m, x.e - y.e), y.m), y.e, FALSE)

\* x * y
FloatMul(x, y) ==
    IF x.m = <<>> \/ y.m = <<>> THEN FloatZero
    ELSE RoundToFloat(BigMul(x.m, y.m), x.e + y.e, FALSE)

QuotientBits == 5 * LimbBits

RoundQuotient(d, e) == RoundToFloat(d.q, e, d.r # 0)

\* the float nearest to a / b for naturals a and 0 < b <= LimbBase: the
\* value of the Python expression a / b on ints, and of a decimal literal
\* such as 0.2 (FloatOf(2, 10))
FloatOf(a, b) ==
    IF a = 0 THEN FloatZero
    ELSE RoundQuotient(BigDiv(BigShiftLeft(BigOf(a), QuotientBits), b),
                       -QuotientBits)

\* x < y
FloatLess(x, y) ==
    IF y.m = <<>> THEN FALSE
    ELSE IF x.m = <<>> THEN TRUE
    ELSE x.e < y.e \/ (x.e = y.e /\ BigLess(x.m, y.m))

FloatLeq(x, y) == ~FloatLess(y, x)

\* the float a decimal literal with one digit after the point denotes
Tenths(k) == FloatOf(k, 10)

MaxOf(a, b) == IF a >= b THEN a ELSE b
MinOf(a, b) == IF a <= b THEN a ELSE b

\* the hyphen of the regex class [a-zA-Z\-]
Hyphen == 45

\* the regex classes [a-zA-Z] and [a-zA-Z\-]
TokenHeadChar(c) == IsLetter(c)
TokenTailChar(c) == IsLetter(c) \/ c = Hyphen

\* how many characters of s, from position i on, are in [a-zA-Z\-]
RECURSIVE TailRun(_, _)
TailRun(s, i) ==
    IF i <= Len(s) /\ TokenTailChar(s[i]) THEN 1 + TailRun(s, i + 1) ELSE 0

\* re.findall(r"[a-zA-Z][a-zA-Z\-]{2,}", s) scanning from position i:
\* a match starts at a letter, takes the longest run of letters and hyphens
\* after it, needs at least two of them, and the scan resumes after the match
RECURSIVE FindAllFrom(_, _)
FindAllFrom(s, i) ==
    IF i > Len(s) THEN <<>>
    ELSE IF TokenHeadChar(s[i]) /\ TailRun(s, i + 1) >= TokenTailMin
         THEN LET k == TailRun(s, i + 1) IN
              <<SubSeq(s, i, i + k)>> \o FindAllFrom(s, i + k + 1)
         ELSE FindAllFrom(s, i + 1)

\* the same scan with [a-zA-Z\-] as the class of the first character too
RECURSIVE FindAllRunsFrom(_, _)
FindAllRunsFrom(s, i) ==
    IF i > Len(s) THEN <<>>
    ELSE IF TokenTailChar(s[i]) /\ TailRun(s, i + 1) >= TokenTailMin
         THEN LET k == TailRun(s, i + 1) IN
              <<SubSeq(s, i, i + k)>> \o FindAllRunsFrom(s, i + k + 1)
         ELSE FindAllRunsFrom(s, i + 1)

TokenizeHyphenFirst(s) == FindAllRunsFrom(Lower(s), 1)

\* _tokenize: the list of tokens of the lower-cased text
Tokenize(s) == FindAllFrom(Lower(s), 1)

Range(f) == {f[i] : i \in DOMAIN f}

LexicalOverlapScore(q, t) ==
    LET q_tokens == Range(Tokenize(q))
        t_tokens == Range(Tokenize(t))
    IN  IF q_tokens = {} \/ t_tokens = {} THEN Rat(0, 1)
        ELSE Rat(Cardinality(q_tokens \cap t_tokens),
                 MaxOf(1, Cardinality(q_tokens)))

\* dict.get(key, default)
DictGet(d, key, default) == IF key \in DOMAIN d THEN d[key] ELSE default

\* one `for e in list: if e in t: score += 0.2` loop, from entry i on
RECURSIVE BoostLoop(_, _, _, _)
BoostLoop(list, t, i, score) ==
    IF i > Len(list) THEN score
    ELSE BoostLoop(list, t, i + 1,
                   IF Contains(list[i], t) THEN score + EntityStep ELSE score)

\* entity_match_boost without the final min
EntityMatchBoostUncapped(txt, ents) ==
    LET t == Lower(txt)
        afterAlgs == BoostLoop(DictGet(ents, "algorithms", <<>>), t, 1, 0)
    IN  BoostLoop(DictGet(ents, "diseases", <<>>), t, 1, afterAlgs)

\* entity_match_boost, in tenths: the floats 0.2 and 0.2 + 0.2 are the
\* floats of 2/10 and 4/10, and from the third match on min returns the
\* literal 0.6
EntityMatchBoost(txt, ents) ==
    LET t == Lower(txt)
        afterAlgs == BoostLoop(DictGet(ents, "algorithms", <<>>), t, 1, 0)
        afterDis == BoostLoop(DictGet(ents, "diseases", <<>>), t, 1, afterAlgs)
    IN  MinOf(afterDis, EntityCap)

\* Row dicts.  Every field is <<>> (key absent) or <<v>> (key present).
RowFields == {"text", "item", "model", "name", "_score", "_tag"}
EmptyRow == [f \in RowFields |-> <<>>]
HasField(r, f) == r[f] # <<>>

\* truthiness of r.get(f): the key is present and its string is not empty
Truthy(r, f) == r[f] # <<>> /\ r[f][1] # <<>>

\* the scored text taken by key presence instead of truthiness
RowTextByPresence(r) ==
    IF HasField(r, "text") THEN r["text"][1]
    ELSE IF HasField(r, "item") THEN r["item"][1]
    ELSE IF HasField(r, "model") THEN r["model"][1]
    ELSE <<>>

\* r.get("text") or r.get("item") or r.get("model") or ""
RowText(r) ==
    IF Truthy(r, "text") THEN r["text"][1]
    ELSE IF Truthy(r, "item") THEN r["item"][1]
    ELSE IF Truthy(r, "model") THEN r["model"][1]
    ELSE <<>>

DomainTags == {"Symptoms", "RiskFactors", "DiagnosticTechniques",
               "CancerTypes", "Dataset", "Results", "Conclusion"}

\* prox given to every tag
ProximityAnyTag(t) == ProximityBoost

\* prox, in tenths
Proximity(t) == IF t \in DomainTags THEN ProximityBoost ELSE 0

\* the sum with prox added unweighted
WeightedSumRawProximity(l, ent, prox) ==
    FloatAdd(FloatAdd(FloatMul(Tenths(LexWeight), FloatOf(l.num, l.den)),
                      FloatMul(Tenths(EntityWeight), Tenths(ent))),
             Tenths(prox))

\* 0.5 * lex + 0.3 * ent + 0.2 * prox in floats, summed from left to right;
\* lex is the quotient [num, den] that lexical_overlap_score divides out,
\* ent and prox are in tenths
WeightedSum(l, ent, prox) ==
    FloatAdd(FloatAdd(FloatMul(Tenths(LexWeight), FloatOf(l.num, l.den)),
                      FloatMul(Tenths(EntityWeight), Tenths(ent))),
             FloatMul(Tenths(ProximityWeight), Tenths(prox)))

\* the arguments WeightedSum is tabulated for: the quotients of questions of
\* up to MaxTableTokens tokens, the boosts and the values of prox
WeightedSumArgs ==
    (0..MaxTableTokens) \X (1..MaxTableTokens)
        \X {0, EntityStep, 2 * EntityStep, EntityCap} \X {0, ProximityBoost}

\* WeightedSum on WeightedSumArgs, computed once: @@ makes the function an
\* explicit table
WeightedSumTable ==
    [k \in WeightedSumArgs |-> WeightedSum(Rat(k[1], k[2]), k[3], k[4])] @@ <<>>

\* final = 0.5 * lex + 0.3 * ent + 0.2 * prox, read from the table where
\* it is tabulated
Final(l, ent, prox) ==
    IF <<l.num, l.den, ent, prox>> \in WeightedSumArgs
    THEN WeightedSumTable[<<l.num, l.den, ent, prox>>]
    ELSE WeightedSum(l, ent, prox)

\* the body of the loop of score_items up to `final`
FinalScore(q, t, r, ents) ==
    LET txt == RowText(r) IN
    Final(LexicalOverlapScore(q, txt), EntityMatchBoost(txt, ents),
          Proximity(t))

ScoreOf(h, id) == h[id]["_score"][1]

\* list.sort(key=_score, reverse=True) as a stable insertion sort: x goes
\* after every element whose score is not smaller than its own
RECURSIVE InsertDescending(_, _, _)
InsertDescending(h, sorted, x) ==
    IF sorted = <<>> THEN <<x>>
    ELSE IF FloatLess(ScoreOf(h, Head(sorted)), ScoreOf(h, x))
         THEN <<x>> \o sorted
         ELSE <<Head(sorted)>> \o InsertDescending(h, Tail(sorted), x)

\* an ascending sort read backwards: x goes before elements of equal score
RECURSIVE InsertDescendingUnstable(_, _, _)
InsertDescendingUnstable(h, sorted, x) ==
    IF sorted = <<>> THEN <<x>>
    ELSE IF FloatLeq(ScoreOf(h, Head(sorted)), ScoreOf(h, x))
         THEN <<x>> \o sorted
         ELSE <<Head(sorted)>> \o InsertDescendingUnstable(h, Tail(sorted), x)

RECURSIVE SortUnstableFrom(_, _, _, _)
SortUnstableFrom(h, list, i, acc) ==
    IF i > Len(list) THEN acc
    ELSE SortUnstableFrom(h, list, i + 1,
                          InsertDescendingUnstable(h, acc, list[i]))

SortByScoreUnstable(h, list) == SortUnstableFrom(h, list, 1, <<>>)

RECURSIVE SortFrom(_, _, _, _)
SortFrom(h, list, i, acc) ==
    IF i > Len(list) THEN acc
    ELSE SortFrom(h, list, i + 1, InsertDescending(h, acc, list[i]))

SortByScoreDescending(h, list) == SortFrom(h, list, 1, <<>>)

\* the row with _score and _tag set
WithScore(r, s, t) == [r EXCEPT !["_score"] = <<s>>, !["_tag"] = <<t>>]

\* score_items writing _score and _tag into the caller's row objects and
\* returning them (r_scored = r in place of r_scored = dict(r))
ScoreItemsInPlace(q, t, h, rws, ents) ==
    LET ids == Range(rws)
        h2 == [id \in DOMAIN h |->
                 IF id \in ids THEN WithScore(h[id], FinalScore(q, t, h[id], ents), t)
                 ELSE h[id]]
    IN  [heap |-> h2, rows |-> rws, ret |-> SortByScoreDescending(h2, rws)]

\* score_items on heap h with row list rws: every row is copied into a new
\* object (dict(r)) that gets _score and _tag, the new list is sorted and
\* returned.  The result is the heap, the caller's list and the returned list.
ScoreItems(q, t, h, rws, ents) ==
    LET base == Len(h)
        copies == [i \in 1..Len(rws) |->
                     WithScore(h[rws[i]], FinalScore(q, t, h[rws[i]], ents), t)]
        h2 == h \o copies
        fresh == [i \in 1..Len(rws) |-> base + i]
    IN  [heap |-> h2, rows |-> rws, ret |-> SortByScoreDescending(h2, fresh)]

\* the slice items[:m] with m < 0 read as 0
SelectTopNClamped(items, m) == SubSeq(items, 1, MinOf(MaxOf(m, 0), Len(items)))

\* select_top_n: the slice scored_items[:n]; a negative n counts from the end
SelectTopN(items, m) ==
    IF m >= 0 THEN SubSeq(items, 1, MinOf(m, Len(items)))
    ELSE SubSeq(items, 1, MaxOf(Len(items) + m, 0))

-----------------------------------------------------------------------------
(* Inputs of the classifier and the builder *)

Fragments == { <<83, 121, 109, 112, 116, 111, 109>> (* "Symptom" *),
               <<114, 105, 115, 107>> (* "risk" *),
               <<100, 105, 97, 103, 110, 111, 115, 105, 115>> (* "diagnosis" *),
               <<100, 97, 116, 97>> (* "data" *),
               <<115, 101, 116>> (* "set" *),
               <<83, 84, 65, 71, 69>> (* "STAGE" *),
               <<82, 101, 115, 117, 108, 116, 115>> (* "Results" *),
               <<99, 111, 110, 99, 108, 117, 115, 105, 111, 110>> (* "conclusion" *),
               <<108, 117, 110, 103, 32, 99, 97, 110, 99, 101, 114>> (* "lung cancer" *),
               <<115, 118, 109>> (* "svm" *),
               <<119, 104, 97, 116>> (* "what" *),
               <<32>> (* " " *),
               <<9, 8195, 13, 10>> (* "\t\u2003\r\n" *),
               <<82, 73, 83, 8490>> (* "RIS\u212a" *),
               <<304, 78, 83, 84, 65, 78, 67, 69, 83>> (* "\u0130NSTANCES" *) }

RECURSIVE SeqsUpTo(_, _)
SeqsUpTo(S, k) ==
    IF k = 0 THEN {<<>>}
    ELSE LET shorter == SeqsUpTo(S, k - 1) IN
         shorter \cup {Append(s, x) : s \in shorter, x \in S}

Questions == {Concat(ps) : ps \in SeqsUpTo(Fragments, MaxParts)}

NoEntities == [diseases |-> <<>>, algorithms |-> <<>>, sections |-> <<>>]

\* intents handed to build_queries directly: the eight labels and others
BuilderIntents == {INTENTS[i].intent : i \in 1..Len(INTENTS)}
                  \cup {"generic", "Symptoms", "result", ""}

BuilderEntities == {NoEntities,
                    [diseases |-> << <<108, 117, 110, 103, 32, 99, 97, 110, 99, 101, 114>> (* "lung cancer" *) >>,
                     algorithms |-> << <<114, 102>> (* "rf" *) >>,
                     sections |-> << <<114, 101, 115, 117, 108, 116, 115>> (* "results" *) >>]}

BuilderQuestions == { <<>>,
                      <<87, 104, 97, 116, 32, 32, 105, 115, 32, 84, 72, 73, 83, 63>> (* "What  is THIS?" *),
                      <<11, 32, 66, 101, 115, 116, 160, 97, 99, 99, 117, 114, 97, 99, 121, 12, 13, 10>> (* "\x0b Best\xa0accuracy\x0c\r\n" *) }

-----------------------------------------------------------------------------
(* Classifier and builder: the caller's steps *)

\* either a question is about to be classified, or build_queries is about
\* to be called directly with arguments of the caller's choosing
InitQuery ==
    /\ \/ /\ pc = "ask"
          /\ question \in Questions
          /\ intent = ""
          /\ entities = NoEntities
       \/ /\ pc = "call_build"
          /\ question \in BuilderQuestions
          /\ intent \in BuilderIntents
          /\ entities \in BuilderEntities
    /\ specs = <<>>
    /\ text = <<>> /\ lex = [num |-> 0, den |-> 1] /\ boost = 0
    /\ tag = "" /\ heap = <<>> /\ rows = <<>> /\ rows0 = <<>>
    /\ scored = <<>> /\ scored2 = <<>> /\ n = 0 /\ top = <<>>

Classify ==
    /\ pc = "ask"
    /\ \E r \in {ClassifyIntentAndEntities(question)} :
          /\ intent' = r.intent
          /\ entities' = r.entities
    /\ pc' = "classified"
    /\ UNCHANGED <<question, specs, text, lex, boost, tag, heap, rows, rows0,
                   scored, scored2, n, top>>

Build ==
    /\ pc \in {"classified", "call_build"}
    /\ specs' = BuildQueries(intent, entities, question)
    /\ pc' = "built"
    /\ UNCHANGED <<question, intent, entities, text, lex, boost, tag, heap,
                   rows, rows0, scored, scored2, n, top>>

NextQuery == Classify \/ Build

SpecQuery == InitQuery /\ [][NextQuery]_vars

-----------------------------------------------------------------------------
(* Inputs of the ranking engine *)

Row1(f, v) == [EmptyRow EXCEPT ![f] = <<v>>]
Row2(f, v, g, w) == [EmptyRow EXCEPT ![f] = <<v>>, ![g] = <<w>>]
Row3(f, v, g, w, k, x) ==
    [EmptyRow EXCEPT ![f] = <<v>>, ![g] = <<w>>, ![k] = <<x>>]

\* the row objects the caller holds before a call
RowObjects == <<
    Row1("item", <<99, 111, 117, 103, 104>> (* "cough" *)),
    Row1("item", <<83, 86, 77, 8195, 109, 111, 100, 101, 108, 44, 32, 114, 105, 115, 8490>> (* "SVM\u2003model, ris\u212a" *)),
    Row2("text", <<>>, "item", <<67, 111, 117, 103, 104>> (* "Cough" *)),
    Row3("text", <<76, 117, 110, 103, 32, 99, 97, 110, 99, 101, 114>> (* "Lung cancer" *), "item",
                 <<99, 111, 117, 103, 104>> (* "cough" *), "model",
                 <<115, 118, 109>> (* "svm" *)),
    Row2("model", <<83, 86, 77>> (* "SVM" *), "name",
                  <<99, 111, 117, 103, 104>> (* "cough" *)),
    Row1("name", <<99, 111, 117, 103, 104>> (* "cough" *)),
    Row3("item", <<99, 111, 117, 103, 104>> (* "cough" *), "_score", FloatOf(9, 1), "_tag", "Old") >>

Deref(h, list) == [i \in 1..Len(list) |-> h[list[i]]]

RankQuestions == { <<67, 111, 117, 103, 104, 44, 32, 83, 86, 77, 32, 97, 110, 100, 32, 108, 117, 110, 103, 32, 99, 97, 110, 99, 101, 114, 63>> (* "Cough, SVM and lung cancer?" *),
                   <<99, 111, 117, 103, 104>> (* "cough" *) }

RankTags == {"Symptoms", "BestModel", "Sections"}

RankEntities == {NoEntities,
                 [diseases |-> << <<108, 117, 110, 103, 32, 99, 97, 110, 99, 101, 114>> (* "lung cancer" *) >>,
                  algorithms |-> << <<115, 118, 109>> (* "svm" *),
                                    <<114, 102>> (* "rf" *) >>,
                  sections |-> <<>>]}

LexFragments == { <<97, 98, 99>> (* "abc" *),
                  <<97, 98>> (* "ab" *),
                  <<45>> (* "-" *),
                  <<201, 32>> (* "\xc9 " *),
                  <<65, 98, 99>> (* "Abc" *),
                  <<120, 45, 121, 32, 100, 101, 102, 32>> (* "x-y def " *),
                  <<8490>> (* "\u212a" *) }

LexStrings == {Concat(ps) : ps \in SeqsUpTo(LexFragments, MaxLexParts)}

BoostTexts == { <<>>,
                <<83, 86, 77, 32, 102, 111, 114, 32, 76, 117, 110, 103, 32, 67, 97, 110, 99, 101, 114>> (* "SVM for Lung Cancer" *),
                <<115, 118, 109>> (* "svm" *),
                <<83, 86, 77, 44, 32, 8490, 78, 78, 58, 32, 76, 85, 78, 71, 160, 67, 65, 78, 67, 69, 82>> (* "SVM, \u212aNN: LUNG\xa0CANCER" *) }

BoostAlgorithms == { <<115, 118, 109>> (* "svm" *),
                     <<83, 86, 77>> (* "SVM" *),
                     <<>> }
BoostDiseases == { <<108, 117, 110, 103, 32, 99, 97, 110, 99, 101, 114>> (* "lung cancer" *),
                   <<99, 97, 110, 99, 101, 114>> (* "cancer" *) }

\* entity dicts, with and without each of the two keys the function reads
BoostEntities ==
    {[algorithms |-> a, diseases |-> d] :
        a \in SeqsUpTo(BoostAlgorithms, MaxEntries),
        d \in SeqsUpTo(BoostDiseases, MaxEntries - 1)}
    \cup {[algorithms |-> a] : a \in SeqsUpTo(BoostAlgorithms, MaxEntries)}
    \cup {[diseases |-> d] : d \in SeqsUpTo(BoostDiseases, MaxEntries - 1)}
    \cup {[sections |-> << <<114, 101, 115, 117, 108, 116, 115>> (* "results" *) >>]}

-----------------------------------------------------------------------------
(* Ranking engine: the caller's steps *)

NoQuery == intent = "" /\ specs = <<>>
NoHelperCall == text = <<>> /\ lex = Rat(0, 1) /\ boost = 0
NoRows ==
    /\ tag = "" /\ heap = <<>> /\ rows = <<>> /\ rows0 = <<>>
    /\ scored = <<>> /\ scored2 = <<>>
NoTop == n = 0 /\ top = <<>>

\* score_items is about to be called on some of the caller's row objects
InitRank ==
    /\ pc = "call_score"
    /\ question \in RankQuestions
    /\ tag \in RankTags
    /\ entities \in RankEntities
    /\ heap = RowObjects
    /\ rows \in SeqsUpTo(DOMAIN RowObjects, MaxRows)
    /\ rows0 = Deref(heap, rows)
    /\ scored = <<>> /\ scored2 = <<>>
    /\ NoQuery /\ NoHelperCall /\ NoTop

Score ==
    /\ pc = "call_score"
    /\ \E e \in {ScoreItems(question, tag, heap, rows, entities)} :
       /\ heap' = e.heap
       /\ rows' = e.rows
       /\ scored' = e.ret
    /\ pc' = "scored"
    /\ UNCHANGED <<question, intent, entities, specs, text, lex, boost, tag,
                   rows0, scored2, n, top>>

\* a second call with the same arguments
ScoreAgain ==
    /\ pc = "scored"
    /\ \E e \in {ScoreItems(question, tag, heap, rows, entities)} :
       /\ heap' = e.heap
       /\ rows' = e.rows
       /\ scored2' = e.ret
    /\ pc' = "scored_twice"
    /\ UNCHANGED <<question, intent, entities, specs, text, lex, boost, tag,
                   rows0, scored, n, top>>

NextRank == Score \/ ScoreAgain

SpecRank == InitRank /\ [][NextRank]_vars

\* select_top_n is about to be called on a list of row objects
InitTop ==
    /\ pc = "call_top"
    /\ heap = RowObjects
    /\ scored \in SeqsUpTo(1..3, MaxItems)
    /\ n \in (-MaxN..MaxN) \cup {DefaultTopN}
    /\ top = <<>>
    /\ question = <<>> /\ entities = NoEntities
    /\ tag = "" /\ rows = <<>> /\ rows0 = <<>> /\ scored2 = <<>>
    /\ NoQuery /\ NoHelperCall

SelectTop ==
    /\ pc = "call_top"
    /\ top' = SelectTopN(scored, n)
    /\ pc' = "selected"
    /\ UNCHANGED <<question, intent, entities, specs, text, lex, boost, tag,
                   heap, rows, rows0, scored, scored2, n>>

NextTop == SelectTop

SpecTop == InitTop /\ [][NextTop]_vars

\* lexical_overlap_score is about to be called
InitLex ==
    /\ pc = "call_lex"
    /\ question \in LexStrings
    /\ text \in LexStrings
    /\ lex = Rat(0, 1) /\ boost = 0
    /\ entities = NoEntities
    /\ NoQuery /\ NoRows /\ NoTop

Lexical ==
    /\ pc = "call_lex"
    /\ lex' = LexicalOverlapScore(question, text)
    /\ pc' = "lex_done"
    /\ UNCHANGED <<question, intent, entities, specs, text, boost, tag, heap,
                   rows, rows0, scored, scored2, n, top>>

NextLex == Lexical

SpecLex == InitLex /\ [][NextLex]_vars

\* entity_match_boost is about to be called
InitBoost ==
    /\ pc = "call_boost"
    /\ text \in BoostTexts
    /\ entities \in BoostEntities
    /\ lex = Rat(0, 1) /\ boost = 0
    /\ question = <<>>
    /\ NoQuery /\ NoRows /\ NoTop

Boost ==
    /\ pc = "call_boost"
    /\ boost' = EntityMatchBoost(text, entities)
    /\ pc' = "boost_done"
    /\ UNCHANGED <<question, intent, entities, specs, text, lex, tag, heap,
                   rows, rows0, scored, scored2, n, top>>

NextBoost == Boost

SpecBoost == InitBoost /\ [][NextBoost]_vars

-----------------------------------------------------------------------------
(* Entity extraction: questions that name diseases, algorithms and sections *)

EntityFragments == { <<115, 118, 109>> (* "svm" *),
                     <<83, 117, 112, 112, 111, 114, 116, 32, 86, 101, 99, 116, 111, 114>> (* "Support Vector" *),
                     <<82, 70>> (* "RF" *),
                     <<112, 108, 97, 110, 110, 105, 110, 103>> (* "planning" *),
                     <<108, 117, 110, 103>> (* "lung" *),
                     <<99, 97, 110, 99, 101, 114>> (* "cancer" *),
                     <<82, 101, 115, 117, 108, 116, 115>> (* "Results" *),
                     <<99, 111, 110, 99, 108, 117, 115, 105, 111, 110>> (* "conclusion" *),
                     <<83, 121, 109, 112, 116, 111, 109>> (* "Symptom" *),
                     <<32>> (* " " *),
                     <<13, 12288, 10>> (* "\r\u3000\n" *),
                     <<304, 110, 116, 114, 111, 100, 117, 99, 116, 105, 111, 110>> (* "\u0130ntroduction" *) }

EntityQuestions ==
    {Concat(ps) : ps \in SeqsUpTo(EntityFragments, MaxEntityParts)}

\* a question about to be classified
InitEntities ==
    /\ pc = "ask"
    /\ question \in EntityQuestions
    /\ intent = ""
    /\ entities = NoEntities
    /\ specs = <<>>
    /\ NoHelperCall /\ NoRows /\ NoTop

NextEntities == Classify

SpecEntities == InitEntities /\ [][NextEntities]_vars

-----------------------------------------------------------------------------
(* Ranking engine on rows of specs that return no text, item or model *)

\* the columns the catalog's queries return (item; name, source, instances,
\* features, format; model, metric, accuracy; bestModel; name, text) and the
\* two keys score_items sets
CatalogRowFields ==
    RowFields \cup {"source", "instances", "features", "format", "metric",
                    "accuracy", "bestModel"}

\* the row dict with the keys and values of record d
CatalogRow(d) ==
    [f \in CatalogRowFields \cup DOMAIN d |->
        IF f \in DOMAIN d THEN <<d[f]>> ELSE <<>>]

\* a BestModel row, a Dataset row, a row of no columns, a Symptoms row and
\* a Results row (accuracy 98.91)
CatalogRowObjects == <<
    CatalogRow([bestModel |-> <<83, 86, 77>> (* "SVM" *)]),
    CatalogRow([name |-> <<108, 117, 110, 103, 32, 99, 97, 110, 99, 101, 114, 32, 115, 117, 114, 118, 101, 121>> (* "lung cancer survey" *), source |->
                         <<99, 111, 117, 103, 104, 32, 100, 97, 116, 97>> (* "cough data" *),
                instances |-> 309, features |-> 16, format |-> <<99, 115, 118>> (* "csv" *)]),
    [f \in CatalogRowFields |-> <<>>],
    CatalogRow([item |-> <<99, 111, 117, 103, 104>> (* "cough" *)]),
    CatalogRow([model |-> <<83, 86, 77>> (* "SVM" *), metric |->
                          <<65, 99, 99, 117, 114, 97, 99, 121, 32, 40, 37, 41>>,
                accuracy |-> FloatOf(9891, 100)]) >>

CatalogRowTags == DomainTags \cup {"BestModel", "Sections", "Other"}

CatalogEntities ==
    RankEntities \cup {[diseases |-> <<>>, algorithms |-> << <<>> >>,
                        sections |-> <<>>]}

\* score_items is about to be called on rows a catalog query returned
InitCatalogRows ==
    /\ pc = "call_score"
    /\ question \in RankQuestions
    /\ tag \in CatalogRowTags
    /\ entities \in CatalogEntities
    /\ heap = CatalogRowObjects
    /\ rows \in SeqsUpTo(DOMAIN CatalogRowObjects, MaxRows)
    /\ rows0 = Deref(heap, rows)
    /\ scored = <<>> /\ scored2 = <<>>
    /\ NoQuery /\ NoHelperCall /\ NoTop

NextCatalogRows == Score

SpecCatalogRows == InitCatalogRows /\ [][NextCatalogRows]_vars

-----------------------------------------------------------------------------
(* Claims about the classifier and the builder, checked under SpecQuery *)

Min(S) == CHOOSE x \in S : \A y \in S : x <= y

\* the normalized question as the claim words it: lower-cased, whitespace
\* runs collapsed to one space, then the spaces at both ends removed
RECURSIVE TrimSpaces(_)
TrimSpaces(s) ==
    IF s # <<>> /\ Head(s) = Space THEN TrimSpaces(Tail(s))
    ELSE IF s # <<>> /\ s[Len(s)] = Space THEN TrimSpaces(SubSeq(s, 1, Len(s) - 1))
    ELSE s

NormalizedQuestion == TrimSpaces(CollapseWs(Lower(question)))

\* the table entries with at least one keyword occurring in the string nq
EntriesMatching(nq) ==
    {i \in 1..Len(INTENTS) :
        \E k \in 1..Len(INTENTS[i].keywords) :
            Contains(INTENTS[i].keywords[k], nq)}

\* the table entries with at least one keyword occurring in the normalized question
MatchingEntries == EntriesMatching(NormalizedQuestion)

\* C1: the intent returned is the first table entry with a keyword occurring
\* in the normalized question, generic exactly when no entry has one, and
\* symptoms whenever the question contains "symptom" in any letter case.
C1_FirstMatchingEntryWins ==
    pc = "classified" =>
        LET matching == MatchingEntries IN
        /\ matching # {} => intent = INTENTS[Min(matching)].intent
        /\ (intent = "generic") <=> (matching = {})
        /\ Contains(<<115, 121, 109, 112, 116, 111, 109>> (* "symptom" *), Lower(question)) => intent = "symptoms"

\* a question where a keyword of a later entry stands before "symptom"
C1_Witness ==
    /\ pc = "classified"
    /\ intent = "symptoms"
    /\ Contains(<<82, 101, 115, 117, 108, 116, 115, 9, 8195, 13, 10, 83, 121, 109, 112, 116, 111, 109>> (* "Results\t\u2003\r\nSymptom" *), question)
    /\ Cardinality(MatchingEntries) = 2

SpecificIntents == {INTENTS[i].intent : i \in 1..Len(INTENTS)}

\* C2: build_queries never returns an empty list, and for generic or any
\* intent outside the seven specific labels it returns exactly one spec,
\* tag Sections, params {q: the question text exactly as passed}.
C2_NeverEmptyFallbackRaw ==
    pc = "built" =>
        /\ Len(specs) >= 1
        /\ intent \notin SpecificIntents =>
              /\ Len(specs) = 1
              /\ specs[1].tag = "Sections"
              /\ specs[1].params = {<<"q", question>>}

\* the fallback built for a question that normalization would change
C2_Witness ==
    /\ pc = "built"
    /\ intent = "generic"
    /\ Normalize(question) # question
    /\ Len(specs) = 1
    /\ specs[1].tag = "Sections"

\* the tags the catalog gives each specific intent
CatalogTags ==
    [i \in SpecificIntents |->
        CASE i = "symptoms" -> <<"Symptoms">>
          [] i = "risk_factors" -> <<"RiskFactors">>
          [] i = "diagnostic_techniques" -> <<"DiagnosticTechniques">>
          [] i = "dataset" -> <<"Dataset">>
          [] i = "cancer_types" -> <<"CancerTypes">>
          [] i = "results" -> <<"Results", "BestModel">>
          [] i = "conclusion" -> <<"Conclusion">>]

\* C3: for each of the seven specific intents the result is the catalog's
\* specs in order (two for results, one otherwise), all with empty params,
\* and never the Sections fallback.
C3_SpecificIntentCatalog ==
    (pc = "built" /\ intent \in SpecificIntents) =>
        /\ [k \in 1..Len(specs) |-> specs[k].tag] = CatalogTags[intent]
        /\ \A k \in 1..Len(specs) :
              specs[k].params = {} /\ specs[k].tag # "Sections"

\* the two results specs, built for a call that carries entities
C3_Witness ==
    /\ pc = "built"
    /\ intent = "results"
    /\ entities.algorithms # <<>>
    /\ Len(specs) = 2
    /\ specs[2].tag = "BestModel"

-----------------------------------------------------------------------------
(* Claims about the ranking engine *)

Returned == pc \in {"scored", "scored_twice"}

ScoredRow(k) == heap[scored[k]]
ScoreAt(k) == ScoredRow(k)["_score"][1]

\* 0.5 * l + 0.3 * e/10 + 0.2 * p/10 in exact arithmetic, l = [num, den]
ExactSum(l, e, p) == Rat(50 * l.num + 3 * e * l.den + 2 * p * l.den, 100 * l.den)

\* the same expression in floats, l the float of num / den
ClaimedSum(l, e, p) ==
    FloatAdd(FloatAdd(FloatMul(FloatOf(5, 10), FloatOf(l.num, l.den)),
                      FloatMul(FloatOf(3, 10), FloatOf(e, 10))),
             FloatMul(FloatOf(2, 10), FloatOf(p, 10)))

ClaimedProximity ==
    IF tag \in {"Symptoms", "RiskFactors", "DiagnosticTechniques", "CancerTypes",
                "Dataset", "Results", "Conclusion"}
    THEN 2 ELSE 0

\* ClaimedSum on the tabulated arguments, computed once
ClaimedSumTable ==
    [k \in WeightedSumArgs |-> ClaimedSum(Rat(k[1], k[2]), k[3], k[4])] @@ <<>>

ClaimedFinal(l, e, p) ==
    IF <<l.num, l.den, e, p>> \in WeightedSumArgs
    THEN ClaimedSumTable[<<l.num, l.den, e, p>>]
    ELSE ClaimedSum(l, e, p)

\* the score the formula gives a row whose scored text is txt
ScoreOnText(txt) ==
    ClaimedFinal(LexicalOverlapScore(question, txt),
                 EntityMatchBoost(txt, entities), ClaimedProximity)

\* the value of the formula in exact arithmetic
ExactScoreOnText(txt) ==
    ExactSum(LexicalOverlapScore(question, txt),
             EntityMatchBoost(txt, entities), ClaimedProximity)

InUnitInterval(x) == x.den > 0 /\ 0 <= x.num /\ x.num <= x.den

\* C4 (checked under SpecRank): every returned row's _score is the float
\* 0.5*lexical + 0.3*entity_boost + 0.2*proximity, proximity 0.2 for the
\* seven domain tags and 0 otherwise; the value of that expression in exact
\* arithmetic lies in [0, 1], and so does the float.
C4_ScoreFormulaInUnitInterval ==
    pc = "scored" =>
        \A k \in 1..Len(scored) :
            /\ ScoreAt(k) = ScoreOnText(RowText(ScoredRow(k)))
            /\ InUnitInterval(ExactScoreOnText(RowText(ScoredRow(k))))
            /\ FloatLeq(ScoreAt(k), FloatOf(1, 1))

\* a row with all three terms positive
C4_Witness ==
    /\ pc = "scored"
    /\ tag = "Symptoms"
    /\ \E k \in 1..Len(scored) :
          LET txt == RowText(ScoredRow(k)) IN
          /\ LexicalOverlapScore(question, txt).num > 0
          /\ EntityMatchBoost(txt, entities) > 0
          /\ FloatLess(FloatOf(1, 4), ScoreAt(k))

\* a row without the two fields score_items sets
Payload(r) == [r EXCEPT !["_score"] = <<>>, !["_tag"] = <<>>]

\* C5 (checked under SpecRank): the result has one scored row per input row,
\* each keeping the input row's fields and carrying _tag = tag, ordered by
\* non-increasing _score, rows of equal _score in their input order; an
\* empty input gives an empty result.
C5_SortedStablePermutation ==
    pc = "scored" =>
        /\ Len(scored) = Len(rows0)
        /\ rows0 = <<>> => scored = <<>>
        /\ \A k \in 1..Len(scored) :
              ScoredRow(k)["_tag"] = <<tag>> /\ HasField(ScoredRow(k), "_score")
        /\ \A i, j \in 1..Len(scored) :
              i < j => FloatLeq(ScoreAt(j), ScoreAt(i))
        /\ \E p \in Permutations(1..Len(rows0)) :
              /\ \A k \in 1..Len(scored) :
                    Payload(ScoredRow(k)) = Payload(rows0[p[k]])
              /\ \A i, j \in 1..Len(scored) :
                    (i < j /\ ScoreAt(i) = ScoreAt(j)) => p[i] < p[j]

\* three rows come back reordered, two different rows among them tied
C5_Witness ==
    /\ pc = "scored"
    /\ Len(scored) = 3
    /\ Payload(ScoredRow(1)) # Payload(rows0[1])
    /\ \E i, j \in 1..Len(scored) :
          /\ i < j
          /\ ScoreAt(i) = ScoreAt(j)
          /\ Payload(ScoredRow(i)) # Payload(ScoredRow(j))

\* C6 (checked under SpecRank): after a call the caller's row list holds the
\* same rows in the same order with no field gained or changed, and a second
\* call with the same arguments returns the same rows, scores and order.
C6_InputsUntouchedAndRepeatable ==
    /\ Returned => Deref(heap, rows) = rows0
    /\ pc = "scored_twice" => Deref(heap, scored2) = Deref(heap, scored)

\* two calls on rows one of which already carried _score and _tag
C6_Witness ==
    /\ pc = "scored_twice"
    /\ Len(rows) >= 2
    /\ \E k \in 1..Len(rows) :
          /\ rows0[k]["_score"] = <<FloatOf(9, 1)>>
          /\ heap[rows[k]]["_tag"] = <<"Old">>
    /\ \E k \in 1..Len(scored2) : heap[scored2[k]]["_tag"] = <<tag>>

\* the text chosen by field presence: text, else item, else model, else ""
PresentText(r) ==
    IF r["text"] # <<>> THEN r["text"][1]
    ELSE IF r["item"] # <<>> THEN r["item"][1]
    ELSE IF r["model"] # <<>> THEN r["model"][1]
    ELSE <<>>

\* C8 as stated: every row is scored on the first of text, item, model that
\* the row has, a present text field (even an empty one) hiding item and model.
C8_TextByFieldPresence ==
    pc = "scored" =>
        \A k \in 1..Len(scored) :
            ScoreAt(k) = ScoreOnText(PresentText(ScoredRow(k)))

NonEmptyField(r, f) == r[f] # <<>> /\ Len(r[f][1]) > 0

\* the first of text, item, model whose value is a non-empty string, else ""
FirstNonEmptyText(r) ==
    IF NonEmptyField(r, "text") THEN r["text"][1]
    ELSE IF NonEmptyField(r, "item") THEN r["item"][1]
    ELSE IF NonEmptyField(r, "model") THEN r["model"][1]
    ELSE <<>>

\* C8 (amended, checked under SpecRank): every row is scored on the first of
\* text, item, model whose value is non-empty, else on the empty string; a
\* row whose text field is non-empty is never scored on item or model.
C8_TextByFirstNonEmptyValue ==
    pc = "scored" =>
        \A k \in 1..Len(scored) :
            /\ ScoreAt(k) = ScoreOnText(FirstNonEmptyText(ScoredRow(k)))
            /\ NonEmptyField(ScoredRow(k), "text") =>
                  ScoreAt(k) = ScoreOnText(ScoredRow(k)["text"][1])

\* a row with an empty text field that was scored on its item
C8_Witness ==
    /\ pc = "scored"
    /\ \E k \in 1..Len(scored) :
          /\ ScoredRow(k)["text"] = << <<>> >>
          /\ NonEmptyField(ScoredRow(k), "item")
          /\ ScoreAt(k) # ScoreOnText(<<>>)
          /\ ScoreAt(k) = ScoreOnText(ScoredRow(k)["item"][1])

Prefix(items, k) == SubSeq(items, 1, k)

\* C7 as stated: for every integer n the result has min(n, len(items))
\* elements and is the prefix of items of that length.
C7_PrefixOfMinLength ==
    pc = "selected" =>
        /\ Len(top) = MinOf(n, Len(scored))
        /\ top = Prefix(scored, Len(top))
        /\ Len(scored) <= n => top = scored

\* C7 (amended, checked under SpecTop): for n >= 0 the result is the prefix
\* of items of length min(n, len(items)), the whole list when len(items) <= n;
\* for n < 0 it is the prefix of length max(0, len(items) + n).
C7_PrefixSliceLength ==
    pc = "selected" =>
        /\ top = Prefix(scored, Len(top))
        /\ n >= 0 => Len(top) = MinOf(n, Len(scored))
        /\ (n >= 0 /\ Len(scored) <= n) => top = scored
        /\ n < 0 => Len(top) = MaxOf(0, Len(scored) + n)

\* a list cut to its first n rows, and a list cut by a negative n
C7_Witness ==
    /\ pc = "selected"
    /\ Len(scored) = 3
    /\ \/ n = 2 /\ top = <<scored[1], scored[2]>>
       \/ n = -1 /\ top = <<scored[1], scored[2]>>
    /\ scored[1] # scored[2]

IsRunChar(c) == IsLetter(c) \/ c = Hyphen

\* the maximal runs of letters (a-z, A-Z) and hyphens of s, as position pairs
MaximalRuns(s) ==
    {ij \in (1..Len(s)) \X (1..Len(s)) :
        /\ ij[1] <= ij[2]
        /\ \A m \in ij[1]..ij[2] : IsRunChar(s[m])
        /\ ij[1] = 1 \/ ~IsRunChar(s[ij[1] - 1])
        /\ ij[2] = Len(s) \/ ~IsRunChar(s[ij[2] + 1])}

\* T(s) of the claim: the maximal runs, of length at least 3, of the
\* lower-cased s
RunTokens(s) ==
    LET l == Lower(s) IN
    {SubSeq(l, ij[1], ij[2]) : ij \in {r \in MaximalRuns(l) : r[2] - r[1] + 1 >= 3}}

\* the position of the first letter of run ij, or 0 when it has none
FirstLetter(s, ij) ==
    LET ls == {m \in ij[1]..ij[2] : IsLetter(s[m])} IN
    IF ls = {} THEN 0 ELSE Min(ls)

\* the maximal runs of the lower-cased s with their leading hyphens
\* removed, of length at least 3
LetterRunTokens(s) ==
    LET l == Lower(s)
        kept == {ij \in MaximalRuns(l) :
                    FirstLetter(l, ij) > 0 /\ ij[2] - FirstLetter(l, ij) + 1 >= 3}
    IN  {SubSeq(l, FirstLetter(l, ij), ij[2]) : ij \in kept}

Overlap(Tq, Tt) == Rat(Cardinality(Tq \cap Tt), MaxOf(1, Cardinality(Tq)))

\* C9 as stated: the score is |T(q) & T(t)| / max(1, |T(q)|) for T the
\* case-folded maximal runs of letters and hyphens of length >= 3 (a run may
\* begin with a hyphen), and 0 when either set is empty.
C9_OverlapOfMaximalRuns ==
    pc = "lex_done" =>
        /\ RatEq(lex, Overlap(RunTokens(question), RunTokens(text)))
        /\ (RunTokens(question) = {} \/ RunTokens(text) = {}) => lex.num = 0

\* C9 (amended, checked under SpecLex): the score is |T(q) & T(t)| /
\* max(1, |T(q)|) for T the maximal runs of letters (a-z) and hyphens of
\* the lower-cased string with their leading hyphens removed, of length
\* >= 3, and 0 when either set is empty; in particular it is 0 when q or t
\* is the empty string.
C9_OverlapOfLetterRuns ==
    pc = "lex_done" =>
        /\ RatEq(lex, Overlap(LetterRunTokens(question), LetterRunTokens(text)))
        /\ (LetterRunTokens(question) = {} \/ LetterRunTokens(text) = {})
              => lex.num = 0
        /\ (question = <<>> \/ text = <<>>) => lex.num = 0

\* a question of three tokens, one of them the run of a text that begins
\* with a hyphen: the score is 1/3
C9_Witness ==
    /\ pc = "lex_done"
    /\ question = <<120, 45, 121, 32, 100, 101, 102, 32, 65, 98, 99>> (* "x-y def Abc" *)
    /\ text = <<45, 97, 98, 99>> (* "-abc" *)
    /\ Cardinality(LetterRunTokens(question)) = 3
    /\ lex = Rat(1, 3)

Entries(key) == IF key \in DOMAIN entities THEN entities[key] ELSE <<>>

\* how many entries of the list occur in the lower-cased text
Matching(list) ==
    Cardinality({i \in 1..Len(list) : Contains(list[i], Lower(text))})

Permuted(list, p) == [i \in 1..Len(list) |-> list[p[i]]]

\* the entity dict with both lists reordered
Reordered(p, q) ==
    [k \in DOMAIN entities |->
        IF k = "algorithms" THEN Permuted(entities[k], p)
        ELSE IF k = "diseases" THEN Permuted(entities[k], q)
        ELSE entities[k]]

MatchCount == Matching(Entries("algorithms")) + Matching(Entries("diseases"))

FloatMinimum(x, y) == IF FloatLess(y, x) THEN y ELSE x

\* C10 (checked under SpecBoost): the boost is min(0.6, 0.2 * k) for k the
\* number of algorithm and disease entries occurring in the lower-cased
\* text, in tenths and as the float that expression evaluates to, never
\* above 0.6, whatever the order of the entries.
C10_BoostCappedCount ==
    pc = "boost_done" =>
        /\ boost = MinOf(6, 2 * MatchCount)
        /\ FloatOf(boost, 10) =
              FloatMinimum(FloatOf(6, 10),
                           FloatMul(FloatOf(2, 10), FloatOf(MatchCount, 1)))
        /\ boost <= 6
        /\ \A p \in Permutations(1..Len(Entries("algorithms"))) :
           \A q \in Permutations(1..Len(Entries("diseases"))) :
              EntityMatchBoost(text, Reordered(p, q)) = boost

\* five entries match and the boost is 0.6
C10_Witness ==
    /\ pc = "boost_done"
    /\ Matching(Entries("algorithms")) + Matching(Entries("diseases")) >= 4
    /\ boost = 6

-----------------------------------------------------------------------------
(* Claim about the entity extraction, checked under SpecEntities *)

\* the alias groups and their short codes, in table order
AliasGroups == <<
    [code |-> <<115, 118, 109>> (* "svm" *), words |-> {
              <<115, 118, 109>> (* "svm" *),
              <<115, 117, 112, 112, 111, 114, 116, 32, 118, 101, 99, 116, 111, 114>> (* "support vector" *) }],
    [code |-> <<97, 110, 110>> (* "ann" *), words |-> {
              <<97, 110, 110>> (* "ann" *),
              <<97, 114, 116, 105, 102, 105, 99, 105, 97, 108, 32, 110, 101, 117, 114, 97, 108>> (* "artificial neural" *) }],
    [code |-> <<114, 102>> (* "rf" *),  words |-> {
              <<114, 102>> (* "rf" *),
              <<114, 97, 110, 100, 111, 109, 32, 102, 111, 114, 101, 115, 116>> (* "random forest" *) }],
    [code |-> <<109, 108, 114>> (* "mlr" *), words |-> {
              <<109, 108, 114>> (* "mlr" *),
              <<109, 117, 108, 116, 105, 112, 108, 101, 32, 108, 105, 110, 101, 97, 114, 32, 114, 101, 103, 114, 101, 115, 115, 105, 111, 110>> (* "multiple linear regression" *) }] >>

FixedSections == << <<97, 98, 115, 116, 114, 97, 99, 116>> (* "abstract" *),
                    <<105, 110, 116, 114, 111, 100, 117, 99, 116, 105, 111, 110>> (* "introduction" *),
                    <<109, 101, 116, 104, 111, 100, 111, 108, 111, 103, 121>> (* "methodology" *),
                    <<114, 101, 115, 117, 108, 116, 115>> (* "results" *),
                    <<99, 111, 110, 99, 108, 117, 115, 105, 111, 110>> (* "conclusion" *) >>

\* the members of list selected by the index set keep, in list order
RECURSIVE Selected(_, _, _)
Selected(list, keep, i) ==
    IF i > Len(list) THEN <<>>
    ELSE (IF i \in keep THEN <<list[i]>> ELSE <<>>) \o Selected(list, keep, i + 1)

\* the alias groups with a keyword occurring in the string nq
GroupsIn(nq) ==
    {i \in 1..Len(AliasGroups) :
        \E w \in AliasGroups[i].words : Contains(w, nq)}

\* the fixed section names occurring in the string nq
SectionsIn(nq) ==
    {i \in 1..Len(FixedSections) : Contains(FixedSections[i], nq)}

MatchedGroups == GroupsIn(NormalizedQuestion)

MatchedSections == SectionsIn(NormalizedQuestion)

\* C11: the entity set is a function of the normalized question alone:
\* diseases is ["lung cancer"] iff it contains "lung cancer", algorithms is
\* the short codes of the alias groups with a keyword in it, each once, in
\* the order svm, ann, rf, mlr, and sections the fixed names in it, in the
\* order abstract, introduction, methodology, results, conclusion.
C11_EntitiesFromNormalizedQuestion ==
    pc = "classified" =>
        /\ DOMAIN entities = {"diseases", "algorithms", "sections"}
        /\ entities.diseases =
              (IF Contains(<<108, 117, 110, 103, 32, 99, 97, 110, 99, 101, 114>> (* "lung cancer" *), NormalizedQuestion)
               THEN << <<108, 117, 110, 103, 32, 99, 97, 110, 99, 101, 114>> (* "lung cancer" *) >> ELSE <<>>)
        /\ entities.algorithms =
              Selected([i \in 1..Len(AliasGroups) |-> AliasGroups[i].code],
                       MatchedGroups, 1)
        /\ entities.sections = Selected(FixedSections, MatchedSections, 1)

\* rf is named before svm in a question whose intent another word decides
C11_Witness ==
    /\ pc = "classified"
    /\ question = <<82, 70, 115, 118, 109, 83, 121, 109, 112, 116, 111, 109>> (* "RFsvmSymptom" *)
    /\ intent = "symptoms"
    /\ entities.algorithms = << <<115, 118, 109>> (* "svm" *),
                                <<114, 102>> (* "rf" *) >>
    /\ entities.sections = <<>>

-----------------------------------------------------------------------------
(* Claim about rows without text, item and model, checked under
   SpecCatalogRows *)

LacksTextFields(r) == r["text"] = <<>> /\ r["item"] = <<>> /\ r["model"] = <<>>

UnderDomainTag ==
    tag \in {"Symptoms", "RiskFactors", "DiagnosticTechniques", "CancerTypes",
             "Dataset", "Results", "Conclusion"}

\* every returned row without text, item and model has score x under a
\* domain tag and 0 under any other tag
FloorScored(x) ==
    /\ Len(scored) = Len(rows0)
    /\ \A k \in 1..Len(scored) :
          LacksTextFields(ScoredRow(k)) =>
              ScoreAt(k) = IF UnderDomainTag THEN x ELSE FloatOf(0, 1)

\* the float 0.04
FourHundredths == FloatOf(4, 100)

\* the float next above x
NextFloat(x) == Normal(BigAdd(x.m, <<1>>), x.e)

\* the float 0.2 * 0.2, which prints as 0.04000000000000001
ProximityTerm == FloatMul(FloatOf(2, 10), FloatOf(2, 10))

\* C12 as stated: for every question and entity set a row with none of
\* text, item, model is scored on the empty string with entity boost 0, so
\* its _score is 0.04 under the seven domain tags and 0 under any other tag.
C12_BareRowFloorScore ==
    pc = "scored" =>
        /\ FloorScored(FourHundredths)
        /\ EntityMatchBoost(<<>>, entities) = 0

\* no entry of entities.algorithms or entities.diseases is the empty string
NoEmptyEntry ==
    /\ \A i \in 1..Len(entities.algorithms) : entities.algorithms[i] # <<>>
    /\ \A i \in 1..Len(entities.diseases) : entities.diseases[i] # <<>>

\* C12 (amended): for every question and every entity set without an
\* empty-string entry, a row with none of text, item, model gets lexical
\* score 0 and entity boost 0, so its _score is the float 0.2 * 0.2, the
\* float next above 0.04, under the seven domain tags and 0 under BestModel,
\* Sections or any other tag, and score_items returns one scored row per
\* input row.
C12_BareRowFloorScoreNonEmptyEntries ==
    (pc = "scored" /\ NoEmptyEntry) =>
        /\ FloorScored(ProximityTerm)
        /\ ProximityTerm = NextFloat(FourHundredths)
        /\ LexicalOverlapScore(question, <<>>).num = 0
        /\ EntityMatchBoost(<<>>, entities) = 0

\* a Dataset row and a row of no columns scored 0.2 * 0.2 under tag Dataset,
\* for a question and entities that match the row's other columns
C12_Witness ==
    /\ pc = "scored"
    /\ tag = "Dataset"
    /\ entities.diseases = << <<108, 117, 110, 103, 32, 99, 97, 110, 99, 101, 114>> (* "lung cancer" *) >>
    /\ Len(scored) = 3
    /\ \E k \in 1..Len(scored) :
          /\ ScoredRow(k)["instances"] = <<309>>
          /\ ScoreAt(k) = ProximityTerm
    /\ \E k \in 1..Len(scored) :
          /\ \A f \in DOMAIN ScoredRow(k) :
                f \notin {"_score", "_tag"} => ScoredRow(k)[f] = <<>>
          /\ ScoreAt(k) = NextFloat(FourHundredths)

====
